---- MODULE Spec2Model ----
(***************************************************************************)
(* TimeGrid desktop shell (src-tauri/src/lib.rs): the tray title command,  *)
(* the tray-anchored widget positioner, the menu / tray / window event     *)
(* handlers and the close-to-tray interception of the main window.         *)
(*                                                                         *)
(* The event loop is single threaded: every action below is one event      *)
(* handled to completion.  Every platform call that returns a Result in    *)
(* the source takes its outcome (ok) from the environment.                 *)
(*                                                                         *)
(* Strings are ASCII: the stopwatch glyph U+23F1 of the tray title is      *)
(* written "<U+23F1>" and the bullet U+2022 is written "<U+2022>".         *)
(***************************************************************************)
EXTENDS Integers, Sequences, FiniteSets, TLC

VARIABLES
    proc,         \* "running" | "exited" (app.exit(0)) | "quit" | "panicked"
    windows,      \* labels of the webview windows that exist
    visible,      \* labels of the windows that are visible
    widgetPos,    \* physical position <<x, y>> of the timer widget
    focus,        \* label of the window holding input focus, or "none"
    pendingBlur,  \* WindowEvent::Focused(false) events queued for the widget
    route,        \* location hash of the main window's front-end
    trayExists,   \* the tray icon "main-tray" is registered
    trayTitle,    \* title text held by the tray icon
    trayRect,     \* what tray.rect() reports: Some(rectangle) or NoRect
    ret,          \* what the event just handled returned to the front-end
    run,          \* outcomes of the consecutive toggles since a Hidden start
    last,         \* arms of the last event, if it made no platform call
    failed        \* names of the hide / set_focus calls that have failed

vars == <<proc, windows, visible, widgetPos, focus, pendingBlur, route,
          trayExists, trayTitle, trayRect, ret, run, last, failed>>

\* The part of the state the program and the platform hold (no history).
progVars == <<proc, windows, visible, widgetPos, focus, route,
              trayExists, trayTitle, trayRect>>

----------------------------------------------------------------------------
\* Bounds of the model.

MaxPending == 2
MaxFailures == 1

----------------------------------------------------------------------------
\* Program constants.

I32Max == 2147483647
I32Min == -I32Max - 1
WindowWidth == 320
Gap == 8

Main == "main"
Widget == "timer-widget"
NoWindow == "none"
NoRect == <<>>
Some(r) == <<r>>
DefaultTitle == "TimeGrid"
NoTitle == "(no tray)"
Stopwatch == "<U+23F1>"
Bullet == "<U+2022>"
SettingsHash == "#/settings"
TimerHash == "#/timer"

----------------------------------------------------------------------------
\* Tray title (update_tray_title, lines 17-23).

\* Faulty variant of FormatTitle: a project without elapsed time is shown.
FormatTitleProjectAlone(elapsed, project) ==
    IF elapsed # "" /\ project # ""
    THEN Stopwatch \o " " \o elapsed \o " " \o Bullet \o " " \o project
    ELSE IF elapsed # ""
    THEN Stopwatch \o " " \o elapsed
    ELSE IF project # "" THEN project
    ELSE DefaultTitle

\* The if / else-if / else of lines 17-23, with format! as concatenation.
FormatTitle(elapsed, project) ==
    IF elapsed # "" /\ project # ""
    THEN Stopwatch \o " " \o elapsed \o " " \o Bullet \o " " \o project
    ELSE IF elapsed # ""
    THEN Stopwatch \o " " \o elapsed
    ELSE DefaultTitle

----------------------------------------------------------------------------
\* Geometry (position_widget_window, lines 39-57).
\*
\* An f64 coordinate is a pair <<whole, halves>> standing for whole + halves/2
\* with halves in {0, 1}: physical coordinates are integers (halves = 0),
\* logical ones may carry a fraction.  The arithmetic of lines 54-55 is exact
\* in f64 for these values; "as i32" truncates toward zero and saturates.

Whole(c) == c[1]
Halves(c) == c[2]

\* Faulty variant of CastI32: rounds down instead of toward zero.
CastI32Floor(a, c, frac) ==
    IF c >= 0 /\ a > I32Max - c THEN I32Max
    ELSE IF c < 0 /\ a < I32Min - c THEN I32Min
    ELSE a + c

\* (a + c + fraction) as i32, where frac says the fraction is not zero and
\* a + c is the floor of the value: truncation toward zero, saturating.
CastI32(a, c, frac) ==
    IF c >= 0 /\ a > I32Max - c THEN I32Max
    ELSE IF c < 0 /\ a < I32Min - c THEN I32Min
    ELSE LET w == a + c IN IF w < 0 /\ frac THEN w + 1 ELSE w

\* Lines 43-46: the Position enum, both arms taken as they are.
TrayXY(rect) ==
    IF rect.position.kind = "Physical"
    THEN <<(<<rect.position.x[1], 0>>), (<<rect.position.y[1], 0>>)>>
    ELSE <<rect.position.x, rect.position.y>>

\* Lines 48-51: the Size enum, both arms taken as they are.
TrayWH(rect) ==
    IF rect.size.kind = "Physical"
    THEN <<(<<rect.size.width[1], 0>>), (<<rect.size.height[1], 0>>)>>
    ELSE <<rect.size.width, rect.size.height>>

\* Line 54 and the cast of line 57:
\* (tray_x + tray_width / 2.0 - window_width / 2.0) as i32, in quarters.
WidgetX(tray_x, tray_width) ==
    LET quarters == 2 * Halves(tray_x) + 2 * (Whole(tray_width) % 2)
                      + Halves(tray_width)
        c == (Whole(tray_width) \div 2) - (WindowWidth \div 2) + (quarters \div 4)
    IN  CastI32(Whole(tray_x), c, quarters % 4 # 0)

\* Line 55 and the cast of line 57: (tray_y + tray_height + 8.0) as i32.
WidgetY(tray_y, tray_height) ==
    LET halves == Halves(tray_y) + Halves(tray_height)
        c == Whole(tray_height) + Gap + (halves \div 2)
    IN  CastI32(Whole(tray_y), c, halves % 2 # 0)

\* Lines 40-57: the PhysicalPosition handed to set_position.
ComputePosition(rect) ==
    LET xy == TrayXY(rect)
        wh == TrayWH(rect)
    IN  <<WidgetX(xy[1], wh[1]), WidgetY(xy[2], wh[2])>>

----------------------------------------------------------------------------
\* Inputs of the model.

Phys(x, y, w, h) ==
    [position |-> [kind |-> "Physical", x |-> <<x, 0>>, y |-> <<y, 0>>],
     size |-> [kind |-> "Physical", width |-> <<w, 0>>, height |-> <<h, 0>>]]

Logi(x, y, w, h) ==
    [position |-> [kind |-> "Logical", x |-> x, y |-> y],
     size |-> [kind |-> "Logical", width |-> w, height |-> h]]

\* The rectangles tray.rect() may report: the two of the specification, an
\* odd width, a fractional logical rectangle and one at the edge of i32.
TrayRects ==
    { Phys(500, 0, 22, 22),
      Phys(100, 20, 24, 24),
      Phys(100, 20, 25, 24),
      Logi(<<10, 1>>, <<0, 1>>, <<22, 0>>, <<22, 0>>),
      Phys(I32Max - 5, I32Max - 5, 22, 22) }

\* The rectangles of the full event model: the end-to-end scenario of the
\* specification and the odd width.
CoreRects == { Phys(500, 0, 22, 22), Phys(100, 20, 25, 24) }

\* Ok(Some(rect)) or Ok(None), as tray.rect() reports it.
RectReports(R) == {Some(r) : r \in R} \cup {NoRect}

Elapseds == {"", "00:05"}
Projects == {"", "Acme"}

AppMenuIds == {"settings", "new_entry", "toggle_timer"}
TrayMenuIds == {"tray_timer", "tray_show", "tray_quit"}
MenuIds == AppMenuIds \cup TrayMenuIds
OtherIds == {"about", ""}

TrayEvents ==
    [type : {"Click"}, button : {"Left", "Right", "Middle"},
     button_state : {"Up", "Down"}]
    \cup [type : {"DoubleClick"}, button : {"Left"}, button_state : {"Up"}]
    \cup [type : {"Enter"}, button : {"None"}, button_state : {"None"}]

WidgetWindowEvents == {"Focused(false)", "Focused(true)", "Moved"}
MainWindowEvents == {"CloseRequested", "Focused(false)", "Focused(true)"}

\* Outcomes of the fallible platform calls of one handler: f[c] is TRUE when
\* call c returns Ok.  Calls outside S are not made by the handler, and at
\* most MaxFailures of its calls fail.
CallNames == {"is_visible", "hide", "rect", "set_position", "show",
              "set_focus", "eval", "set_title"}
Outcomes(S) ==
    { [c \in CallNames |-> c \notin F] :
        F \in {G \in SUBSET S : Cardinality(G) <= MaxFailures} }
AllOk == [c \in CallNames |-> TRUE]

----------------------------------------------------------------------------
\* The state as one record, so that a handler is a function of the state.
\* While an event is handled the record also carries the handler arms entered
\* (arms) and the platform calls made, each with its outcome (calls).

St ==
    [proc |-> proc, windows |-> windows, visible |-> visible,
     widgetPos |-> widgetPos, focus |-> focus, pendingBlur |-> pendingBlur,
     route |-> route, trayExists |-> trayExists, trayTitle |-> trayTitle,
     trayRect |-> trayRect, ret |-> ret, run |-> run,
     arms |-> <<>>, calls |-> <<>>]

\* A new event: nothing has been returned yet.
Begin(s) == [s EXCEPT !.ret = "none"]

Arm(s, a) == [s EXCEPT !.arms = Append(@, a)]
Call(s, target, name, ok) == [s EXCEPT !.calls = Append(@, <<target, name, ok>>)]

----------------------------------------------------------------------------
\* Platform calls on a window or on the application.  A call that returns
\* Err changes nothing; every call is recorded with its outcome.

\* Faulty variant of WindowHide: the call is made and the window stays visible.
WindowHideKeepsVisible(s, w, ok) == Call(s, w, "hide", ok)

\* window.hide(): a window that held input focus gives it up, and the widget
\* is then sent WindowEvent::Focused(false).
WindowHide(s, w, ok) ==
    LET t == Call(s, w, "hide", ok) IN
    IF ~ok THEN t
    ELSE [t EXCEPT !.visible = @ \ {w},
                   !.focus = IF @ = w THEN NoWindow ELSE @,
                   !.pendingBlur = IF s.focus = w /\ w = Widget THEN @ + 1 ELSE @]

\* window.show()
WindowShow(s, w, ok) ==
    LET t == Call(s, w, "show", ok) IN
    IF ~ok THEN t ELSE [t EXCEPT !.visible = @ \cup {w}]

\* Faulty variant of WindowSetFocus: the widget is not told that it lost the
\* input focus.
WindowSetFocusSilent(s, w, ok) ==
    LET t == Call(s, w, "set_focus", ok) IN
    IF ~ok \/ w \notin s.visible THEN t ELSE [t EXCEPT !.focus = w]

\* window.set_focus(): a visible window takes the input focus; a widget that
\* held it is sent WindowEvent::Focused(false).
WindowSetFocus(s, w, ok) ==
    LET t == Call(s, w, "set_focus", ok) IN
    IF ~ok \/ w \notin s.visible THEN t
    ELSE [t EXCEPT !.focus = w,
                   !.pendingBlur = IF s.focus = Widget /\ w # Widget
                                   THEN @ + 1 ELSE @]

\* window.eval("window.location.hash = '<hash>'")
WindowEval(s, w, hash, ok) ==
    LET t == Call(s, w, "eval", ok) IN
    IF ~ok THEN t ELSE [t EXCEPT !.route = hash]

\* widget.set_position(PhysicalPosition::new(x, y))
WindowSetPosition(s, w, pos, ok) ==
    LET t == Call(s, w, "set_position", ok) IN
    IF ~ok THEN t ELSE [t EXCEPT !.widgetPos = pos]

\* The process ends: its windows are gone with it.
Terminate(s, how) ==
    [s EXCEPT !.proc = how, !.windows = {}, !.visible = {},
              !.focus = NoWindow, !.pendingBlur = 0]

\* app.exit(0)
AppExit(s) == Terminate(Call(s, "app", "exit(0)", TRUE), "exited")

----------------------------------------------------------------------------
\* position_widget_window (lines 35-62).  Its Result is discarded by every
\* caller, so only its effect on the state is modelled.

\* Faulty variant of PositionWidgetWindow: without a rectangle the widget is
\* moved to the default position.
PositionWidgetWindowDefault(s, f) ==
    IF Widget \notin s.windows THEN s
    ELSE IF ~s.trayExists THEN [s EXCEPT !.widgetPos = <<0, 0>>]
    ELSE LET r == Call(s, "main-tray", "rect", f["rect"]) IN
         IF f["rect"] /\ s.trayRect # NoRect
         THEN WindowSetPosition(r, Widget, ComputePosition(s.trayRect[1]),
                                f["set_position"])
         ELSE [r EXCEPT !.widgetPos = <<0, 0>>]

PositionWidgetWindow(s, f) ==
    IF Widget \notin s.windows THEN s
    ELSE IF ~s.trayExists THEN s
    ELSE LET r == Call(s, "main-tray", "rect", f["rect"]) IN
         IF f["rect"] /\ s.trayRect # NoRect
         THEN WindowSetPosition(r, Widget, ComputePosition(s.trayRect[1]),
                                f["set_position"])
         ELSE r

----------------------------------------------------------------------------
\* The three copies of the toggle code.

\* app.on_menu_event, arm "toggle_timer" (lines 198-209).
AppToggleTimer(s, f) ==
    LET a == Arm(s, "app:toggle_timer") IN
    IF Widget \notin a.windows THEN a
    ELSE LET v == Call(a, Widget, "is_visible", f["is_visible"]) IN
         IF f["is_visible"] /\ Widget \in v.visible
         THEN WindowHide(v, Widget, f["hide"])
         ELSE LET p == PositionWidgetWindow(v, f)
                  w == WindowShow(p, Widget, f["show"])
              IN  WindowSetFocus(w, Widget, f["set_focus"])

\* Faulty variant of TrayClickToggle: focus is requested before show.
TrayClickToggleFocusFirst(s, f) ==
    LET a == Arm(s, "tray_icon:left_up") IN
    IF Widget \notin a.windows THEN a
    ELSE LET v == Call(a, Widget, "is_visible", f["is_visible"]) IN
         IF f["is_visible"] /\ Widget \in v.visible
         THEN WindowHide(v, Widget, f["hide"])
         ELSE LET p == PositionWidgetWindow(v, f)
                  w == WindowSetFocus(p, Widget, f["set_focus"])
              IN  WindowShow(w, Widget, f["show"])

\* on_tray_icon_event, arm Click { Left, Up } (lines 228-243).
TrayClickToggle(s, f) ==
    LET a == Arm(s, "tray_icon:left_up") IN
    IF Widget \notin a.windows THEN a
    ELSE LET v == Call(a, Widget, "is_visible", f["is_visible"]) IN
         IF f["is_visible"] /\ Widget \in v.visible
         THEN WindowHide(v, Widget, f["hide"])
         ELSE LET p == PositionWidgetWindow(v, f)
                  w == WindowShow(p, Widget, f["show"])
              IN  WindowSetFocus(w, Widget, f["set_focus"])

\* Faulty variant of TrayMenuTimer: the widget is shown without being
\* positioned.
TrayMenuTimerUnpositioned(s, f) ==
    LET a == Arm(s, "tray:tray_timer") IN
    IF Widget \notin a.windows THEN a
    ELSE LET v == Call(a, Widget, "is_visible", f["is_visible"]) IN
         IF f["is_visible"] /\ Widget \in v.visible
         THEN WindowHide(v, Widget, f["hide"])
         ELSE WindowSetFocus(WindowShow(v, Widget, f["show"]), Widget,
                             f["set_focus"])

\* tray on_menu_event, arm "tray_timer" (lines 248-259).
TrayMenuTimer(s, f) ==
    LET a == Arm(s, "tray:tray_timer") IN
    IF Widget \notin a.windows THEN a
    ELSE LET v == Call(a, Widget, "is_visible", f["is_visible"]) IN
         IF f["is_visible"] /\ Widget \in v.visible
         THEN WindowHide(v, Widget, f["hide"])
         ELSE LET p == PositionWidgetWindow(v, f)
                  w == WindowShow(p, Widget, f["show"])
              IN  WindowSetFocus(w, Widget, f["set_focus"])

ToggleArms == {"app:toggle_timer", "tray_icon:left_up", "tray:tray_timer"}

----------------------------------------------------------------------------
\* The event handlers.

\* Faulty variant of ShowMainAndNavigate: the handler also hides the widget.
ShowMainAndNavigateHidesWidget(s, hash, f) ==
    IF Main \notin s.windows THEN s
    ELSE LET w == WindowShow(s, Main, f["show"])
             g == WindowSetFocus(w, Main, f["set_focus"])
             n == WindowEval(g, Main, hash, f["eval"])
         IN  [n EXCEPT !.visible = @ \ {Widget}]

\* Lines 183-188 and 191-196: show and focus the main window, then navigate.
ShowMainAndNavigate(s, hash, f) ==
    IF Main \notin s.windows THEN s
    ELSE LET w == WindowShow(s, Main, f["show"])
             g == WindowSetFocus(w, Main, f["set_focus"])
         IN  WindowEval(g, Main, hash, f["eval"])

\* Faulty variant of ShowMain: the main window is not looked up first.
ShowMainUnchecked(s, f) ==
    WindowSetFocus(WindowShow(s, Main, f["show"]), Main, f["set_focus"])

\* Lines 261-264: show and focus the main window.
ShowMain(s, f) ==
    IF Main \notin s.windows THEN s
    ELSE WindowSetFocus(WindowShow(s, Main, f["show"]), Main, f["set_focus"])

\* app.on_menu_event (lines 181-211).
AppMenuHandler(s, id, f) ==
    CASE id = "settings" -> ShowMainAndNavigate(Arm(s, "app:settings"), SettingsHash, f)
      [] id = "new_entry" -> ShowMainAndNavigate(Arm(s, "app:new_entry"), TimerHash, f)
      [] id = "toggle_timer" -> AppToggleTimer(s, f)
      [] OTHER -> s

\* Faulty variant of TrayMenuHandler: the tray's handler also toggles on the
\* application menu's "toggle_timer".
TrayMenuHandlerAlsoToggles(s, id, f) ==
    CASE id \in {"tray_timer", "toggle_timer"} -> TrayMenuTimer(s, f)
      [] id = "tray_show" -> ShowMain(Arm(s, "tray:tray_show"), f)
      [] id = "tray_quit" -> AppExit(Arm(s, "tray:tray_quit"))
      [] OTHER -> s

\* The tray's on_menu_event (lines 247-270).
TrayMenuHandler(s, id, f) ==
    CASE id = "tray_timer" -> TrayMenuTimer(s, f)
      [] id = "tray_show" -> ShowMain(Arm(s, "tray:tray_show"), f)
      [] id = "tray_quit" -> AppExit(Arm(s, "tray:tray_quit"))
      [] OTHER -> s

\* Faulty variant of TrayIconHandler: a left press toggles as well.
TrayIconHandlerAnyLeft(s, e, f) ==
    IF e.type = "Click" /\ e.button = "Left"
    THEN TrayClickToggle(s, f)
    ELSE s

\* on_tray_icon_event (lines 226-246).
TrayIconHandler(s, e, f) ==
    IF e.type = "Click" /\ e.button = "Left" /\ e.button_state = "Up"
    THEN TrayClickToggle(s, f)
    ELSE s

\* Faulty variant of WidgetWindowHandler: a focus loss is ignored.
WidgetWindowHandlerIgnores(s, e, f) == s

\* widget.on_window_event (lines 276-284).
WidgetWindowHandler(s, e, f) ==
    IF e = "Focused(false)"
    THEN WindowHide(Arm(s, "widget:focused_false"), Widget, f["hide"])
    ELSE s

\* window.on_window_event of the main window (lines 290-296): hide().unwrap()
\* panics when hide returns Err, before prevent_close is reached.
MainWindowHandler(s, e, f) ==
    IF e = "CloseRequested"
    THEN LET h == WindowHide(Arm(s, "main:close_requested"), Main, f["hide"]) IN
         IF ~f["hide"] THEN Terminate(h, "panicked")
         ELSE Call(h, "api", "prevent_close", TRUE)
    ELSE s

\* What the platform does with a window event of the main window once the
\* handler has returned: a close request that was not prevented closes it.
ClosePrevented(s) ==
    \E i \in 1..Len(s.calls) : s.calls[i] = <<"api", "prevent_close", TRUE>>

AfterMainWindowEvent(s, e) ==
    IF e = "CloseRequested" /\ s.proc = "running" /\ ~ClosePrevented(s)
    THEN [s EXCEPT !.windows = @ \ {Main}, !.visible = @ \ {Main},
                   !.focus = IF @ = Main THEN NoWindow ELSE @]
    ELSE s

\* Faulty variant of UpdateTrayTitleCmd: a missing tray icon is an error.
UpdateTrayTitleCmdStrict(s, elapsed, project, f) ==
    LET a == Arm(s, "cmd:update_tray_title") IN
    IF a.trayExists
    THEN LET title == FormatTitle(elapsed, project)
             c == Call(a, "main-tray", "set_title", f["set_title"])
         IN  IF f["set_title"]
             THEN [c EXCEPT !.trayTitle = title, !.ret = "Ok"]
             ELSE [c EXCEPT !.ret = "Err"]
    ELSE [a EXCEPT !.ret = "Err"]

\* Faulty variant of UpdateTrayTitleCmd: the title changes although set_title
\* failed.
UpdateTrayTitleCmdSetsOnErr(s, elapsed, project, f) ==
    LET a == Arm(s, "cmd:update_tray_title") IN
    IF a.trayExists
    THEN LET title == FormatTitle(elapsed, project)
             c == Call(a, "main-tray", "set_title", f["set_title"])
         IN  [c EXCEPT !.trayTitle = title,
                       !.ret = IF f["set_title"] THEN "Ok" ELSE "Err"]
    ELSE [a EXCEPT !.ret = "Ok"]

\* The command update_tray_title (lines 9-32).
UpdateTrayTitleCmd(s, elapsed, project, f) ==
    LET a == Arm(s, "cmd:update_tray_title") IN
    IF a.trayExists
    THEN LET title == FormatTitle(elapsed, project)
             c == Call(a, "main-tray", "set_title", f["set_title"])
         IN  IF f["set_title"]
             THEN [c EXCEPT !.trayTitle = title, !.ret = "Ok"]
             ELSE [c EXCEPT !.ret = "Err"]
    ELSE [a EXCEPT !.ret = "Ok"]

----------------------------------------------------------------------------
\* History: the consecutive toggles of the widget since a Hidden start, each
\* with whether all its platform calls returned Ok.

AllCallsOk(s) == \A i \in 1..Len(s.calls) : s.calls[i][3]

IsToggle(s) == Len(s.arms) = 1 /\ s.arms[1] \in ToggleArms

NextRun(s, t) ==
    IF IsToggle(t) /\ Widget \in s.windows
    THEN IF Len(s.run) = 1 THEN Append(s.run, AllCallsOk(t))
         ELSE IF Widget \notin s.visible THEN <<AllCallsOk(t)>>
         ELSE <<>>
    ELSE <<>>

\* The arms the event entered when it returned without a platform call: the
\* window or the tray icon it looked up was missing.
NextLast(t) == IF t.calls = <<>> THEN t.arms ELSE <<>>

\* The hide and set_focus calls that have returned Err since setup.  Only the
\* specification SpecFocus keeps this history; in the others it stays Untracked.
Untracked == {"untracked"}

FailedCalls(t) ==
    { t.calls[i][2] : i \in { j \in 1..Len(t.calls) :
                                ~t.calls[j][3]
                                /\ t.calls[j][2] \in {"hide", "set_focus"} } }

NextFailed(t) ==
    IF failed = Untracked THEN Untracked ELSE failed \cup FailedCalls(t)

\* The state t reached from the current one becomes the next state.
Step(t) ==
    /\ t.pendingBlur <= MaxPending
    /\ proc' = t.proc
    /\ windows' = t.windows
    /\ visible' = t.visible
    /\ widgetPos' = t.widgetPos
    /\ focus' = t.focus
    /\ pendingBlur' = t.pendingBlur
    /\ route' = t.route
    /\ trayExists' = t.trayExists
    /\ trayTitle' = t.trayTitle
    /\ trayRect' = t.trayRect
    /\ ret' = t.ret
    /\ run' = NextRun(St, t)
    /\ last' = NextLast(t)
    /\ failed' = NextFailed(t)

----------------------------------------------------------------------------
\* The state once setup (lines 67-300) has returned.  Which of the two
\* windows the configuration declares, and whether the tray icon is
\* registered and reports a rectangle, is the environment's.

DefaultPos == <<0, 0>>

InitOver(R) ==
    /\ proc = "running"
    /\ \E absent \in SUBSET {Main, Widget} : windows = {Main, Widget} \ absent
    /\ visible = windows \cap {Main}
    /\ widgetPos = DefaultPos
    /\ focus = IF Main \in windows THEN Main ELSE NoWindow
    /\ pendingBlur = 0
    /\ route = ""
    /\ trayExists \in BOOLEAN
    /\ trayTitle = IF trayExists THEN DefaultTitle ELSE NoTitle
    /\ trayRect \in IF trayExists THEN RectReports(R) ELSE {NoRect}
    /\ ret = "none"
    /\ run = <<>>
    /\ last = <<>>

Init ==
    /\ InitOver(CoreRects)
    /\ failed = Untracked

----------------------------------------------------------------------------
\* Events.

MenuCalls(id) ==
    CASE id \in {"settings", "new_entry"} -> {"show", "set_focus", "eval"}
      [] id \in {"toggle_timer", "tray_timer"} ->
            {"is_visible", "hide", "rect", "set_position", "show", "set_focus"}
      [] id = "tray_show" -> {"show", "set_focus"}
      [] OTHER -> {}

\* Both menu handlers receive every menu event, the application's
\* (registered at line 181) before the tray's (line 247).
MenuDispatch(s, id, f) == TrayMenuHandler(AppMenuHandler(s, id, f), id, f)

\* A menu item is clicked; the tray's items exist with the tray icon.
MenuEvent ==
    \E id \in MenuIds \cup OtherIds : \E f \in Outcomes(MenuCalls(id)) :
        /\ proc = "running"
        /\ id \in TrayMenuIds => trayExists
        /\ Step(MenuDispatch(Begin(St), id, f))

\* The application menu's predefined Quit item (lines 85 and 97) is handled
\* by the platform: the process ends without a menu handler running.
PredefinedQuit ==
    /\ proc = "running"
    /\ Step(Terminate(Arm(Begin(St), "predefined:quit"), "quit"))

TrayIconCalls(e) ==
    IF e.type = "Click" /\ e.button = "Left" /\ e.button_state = "Up"
    THEN {"is_visible", "hide", "rect", "set_position", "show", "set_focus"}
    ELSE {}

\* The tray icon reports a mouse event.
TrayIconEvent ==
    \E e \in TrayEvents : \E f \in Outcomes(TrayIconCalls(e)) :
        /\ proc = "running"
        /\ trayExists
        /\ Step(TrayIconHandler(Begin(St), e, f))

\* The widget window reports an event; Focused(false) is one of the queued.
WidgetWindowEvent ==
    \E e \in WidgetWindowEvents :
    \E f \in Outcomes(IF e = "Focused(false)" THEN {"hide"} ELSE {}) :
        /\ proc = "running"
        /\ Widget \in windows
        /\ e = "Focused(false)" => pendingBlur > 0
        /\ LET s == Begin(St)
               d == IF e = "Focused(false)"
                    THEN [s EXCEPT !.pendingBlur = @ - 1] ELSE s
           IN  Step(WidgetWindowHandler(d, e, f))

\* The main window reports an event.
MainWindowEvent ==
    \E e \in MainWindowEvents :
    \E f \in Outcomes(IF e = "CloseRequested" THEN {"hide"} ELSE {}) :
        /\ proc = "running"
        /\ Main \in windows
        /\ Step(AfterMainWindowEvent(MainWindowHandler(Begin(St), e, f), e))

\* The front-end invokes the command.
UpdateTrayTitle ==
    \E elapsed \in Elapseds : \E project \in Projects :
    \E f \in Outcomes({"set_title"}) :
        /\ proc = "running"
        /\ Step(UpdateTrayTitleCmd(Begin(St), elapsed, project, f))

\* The user gives the input focus to a visible window of the application, or
\* to another application (NoWindow); a widget that held it is sent
\* WindowEvent::Focused(false).
UserFocus ==
    \E w \in visible \cup {NoWindow} :
        /\ proc = "running"
        /\ w # focus
        /\ Step([Begin(St) EXCEPT
                    !.focus = w,
                    !.pendingBlur = IF focus = Widget THEN @ + 1 ELSE @])

\* The tray icon moves, or its rectangle becomes (un)available.
TrayMovedOver(R) ==
    \E r \in RectReports(R) :
        /\ proc = "running"
        /\ trayExists
        /\ r # trayRect
        /\ Step([Begin(St) EXCEPT !.trayRect = r])

TrayMoved == TrayMovedOver(CoreRects)

Next ==
    \/ MenuEvent
    \/ TrayIconEvent
    \/ WidgetWindowEvent
    \/ MainWindowEvent
    \/ UpdateTrayTitle
    \/ UserFocus
    \/ TrayMoved
    \/ PredefinedQuit

Spec == Init /\ [][Next]_vars

\* The positioner on every rectangle of TrayRects: both windows and the tray
\* icon exist, and the events are those that show, hide and move the widget.
InitGeom ==
    /\ InitOver(TrayRects)
    /\ windows = {Main, Widget}
    /\ trayExists
    /\ failed = Untracked

TrayMovedAny == TrayMovedOver(TrayRects)

NextGeom ==
    \/ TrayIconEvent
    \/ WidgetWindowEvent
    \/ UserFocus
    \/ TrayMovedAny

SpecGeom == InitGeom /\ [][NextGeom]_vars

\* Focus and visibility with the history of failed calls: both windows exist,
\* and the events are those that show, hide or focus a window.
InitFocus ==
    /\ InitOver(CoreRects)
    /\ windows = {Main, Widget}
    /\ failed = {}

NextFocus ==
    \/ MenuEvent
    \/ TrayIconEvent
    \/ WidgetWindowEvent
    \/ MainWindowEvent
    \/ UserFocus

SpecFocus == InitFocus /\ [][NextFocus]_vars

----------------------------------------------------------------------------
\* Properties.

LeftUp == [type |-> "Click", button |-> "Left", button_state |-> "Up"]
ToggleCalls == {"is_visible", "hide", "rect", "set_position", "show", "set_focus"}

\* The states the three toggle entry points lead to from s under outcomes f.
ToggleResults(s, f) ==
    { TrayIconHandler(s, LeftUp, f),
      MenuDispatch(s, "toggle_timer", f),
      MenuDispatch(s, "tray_timer", f) }

C2_Post(t) ==
    /\ t.calls = << <<Widget, "is_visible", t.calls[1][3]>>,
                    <<"main-tray", "rect", TRUE>>,
                    <<Widget, "set_position", TRUE>>,
                    <<Widget, "show", TRUE>>,
                    <<Widget, "set_focus", TRUE>> >>
    /\ widgetPos' = ComputePosition(trayRect[1])
    /\ trayRect = Some(Phys(500, 0, 22, 22)) => widgetPos' = <<351, 30>>
    /\ Widget \in visible'
    /\ focus' = Widget

C2_Pre ==
    /\ proc = "running"
    /\ Widget \in windows
    /\ Widget \notin visible
    /\ trayExists
    /\ trayRect # NoRect

\* C2 as stated: every toggle delivered while the widget is Hidden, the
\* widget window and the tray rectangle existing, positions, shows and
\* focuses the widget.
C2_ToggleFromHiddenShows ==
    [][\A f \in Outcomes(ToggleCalls) : \A t \in ToggleResults(Begin(St), f) :
          (C2_Pre /\ Step(t)) => C2_Post(t)]_vars

\* C2, amended: the same, provided the calls tray.rect, set_position, show
\* and set_focus of the handler return Ok.
C2_OkToggleFromHiddenShows ==
    [][\A f \in Outcomes(ToggleCalls) : \A t \in ToggleResults(Begin(St), f) :
          (C2_Pre /\ f["rect"] /\ f["set_position"] /\ f["show"]
             /\ f["set_focus"] /\ Step(t)) => C2_Post(t)]_vars

C2_Witness ==
    /\ run = <<TRUE>>
    /\ trayRect = Some(Phys(500, 0, 22, 22))
    /\ widgetPos = <<351, 30>>
    /\ Widget \in visible
    /\ focus = Widget

\* The show path of a tray left click taken from the current state, with the
\* rectangle read and the position set.
C3_Positioned(f, t) ==
    /\ proc = "running"
    /\ trayExists
    /\ Widget \in windows
    /\ Widget \notin visible
    /\ trayRect # NoRect
    /\ f["rect"]
    /\ f["set_position"]
    /\ Step(t)

\* In quarters, tray.width / 2 - 320 / 2 plus the fraction of tray.x: the exact
\* x of line 54 is Whole(tray.x) + C3_QuartersX(rect) / 4.
C3_QuartersX(rect) ==
    2 * rect.position.x[2] + (2 * rect.size.width[1] + rect.size.width[2])
      - 2 * WindowWidth

\* In halves, tray.height + 8 plus the fraction of tray.y: the exact y of
\* line 55 is Whole(tray.y) + C3_HalvesY(rect) / 2.
C3_HalvesY(rect) ==
    rect.position.y[2] + (2 * rect.size.height[1] + rect.size.height[2])
      + 2 * Gap

\* p is whole + q / unit converted to i32: truncated toward zero, or the
\* nearest end of the i32 range when the value lies outside it.
C3_TruncatesTo(p, whole, q, unit) ==
    LET fl == q \div unit
        d == p - whole
    IN  IF fl > 0 /\ whole > I32Max - fl THEN p = I32Max
        ELSE IF fl < 0 /\ whole < I32Min - fl THEN p = I32Min
        ELSE IF whole >= -fl
             THEN unit * d <= q /\ q < unit * d + unit
             ELSE unit * d - unit < q /\ q <= unit * d

\* C3 as stated: the position applied is exactly
\* x = tray.x + tray.width/2 - 320/2 and y = tray.y + tray.height + 8, hence
\* y - tray.y - tray.height = 8, for every tray rectangle.
C3_PositionIsExact ==
    [][\A f \in Outcomes(ToggleCalls) :
          LET t == TrayIconHandler(Begin(St), LeftUp, f)
              r == trayRect[1]
          IN  C3_Positioned(f, t) =>
                /\ 4 * (widgetPos'[1] - r.position.x[1]) = C3_QuartersX(r)
                /\ 2 * (widgetPos'[2] - r.position.y[1]) = C3_HalvesY(r)
                /\ r.position.y[2] = 0 /\ r.size.height[2] = 0
                /\ widgetPos'[2] - r.position.y[1] - r.size.height[1] = Gap]_vars

\* C3, amended: the position applied is x = tray.x + tray.width/2 - 320/2 and
\* y = tray.y + tray.height + 8, each converted to i32 (truncated toward zero,
\* saturating); nothing clamps it to the display: (100,20) sized (24,24)
\* gives (-48,52), and sized (25,24) gives (-47,52).
C3_PositionIsTruncated ==
    [][\A f \in Outcomes(ToggleCalls) :
          LET t == TrayIconHandler(Begin(St), LeftUp, f)
              r == trayRect[1]
          IN  C3_Positioned(f, t) =>
                /\ C3_TruncatesTo(widgetPos'[1], r.position.x[1],
                                  C3_QuartersX(r), 4)
                /\ C3_TruncatesTo(widgetPos'[2], r.position.y[1],
                                  C3_HalvesY(r), 2)
                /\ r = Phys(100, 20, 24, 24) => widgetPos' = <<-48, 52>>
                /\ r = Phys(100, 20, 25, 24) => widgetPos' = <<-47, 52>>]_vars

C3_Witness ==
    /\ trayRect = Some(Phys(100, 20, 24, 24))
    /\ widgetPos = <<-48, 52>>
    /\ Widget \in visible

\* The title C4 describes for (elapsed, project).
C4_Title(elapsed, project) ==
    CASE elapsed = "" -> "TimeGrid"
      [] elapsed # "" /\ project = "" -> "<U+23F1> " \o elapsed
      [] OTHER -> "<U+23F1> " \o elapsed \o " <U+2022> " \o project

\* C4: the title update_tray_title computes from (elapsed, project), and
\* sets on the tray, is "<stopwatch> elapsed <bullet> project" when both are
\* non-empty, "<stopwatch> elapsed" when only elapsed is, and "TimeGrid"
\* whenever elapsed is empty.
C4_TitleFormat ==
    [][\A elapsed \in Elapseds : \A project \in Projects :
          LET f == [c \in CallNames |-> TRUE]
              t == UpdateTrayTitleCmd(Begin(St), elapsed, project, f)
          IN  (proc = "running" /\ trayExists /\ Step(t)) =>
                /\ FormatTitle(elapsed, project) = C4_Title(elapsed, project)
                /\ trayTitle' = C4_Title(elapsed, project)]_vars

C4_Witness ==
    /\ trayTitle = "<U+23F1> 00:05 <U+2022> Acme"
    /\ ret = "Ok"

\* A close request of the main window handled from the current state.
C5_CloseStep(f) ==
    /\ proc = "running"
    /\ Main \in windows
    /\ Step(AfterMainWindowEvent(
              MainWindowHandler(Begin(St), "CloseRequested", f),
              "CloseRequested"))

\* C5: every close request on the main window is cancelled and the window is
\* hidden instead, and no event other than quit destroys the main window.
C5_CloseHidesNeverDestroys ==
    [][/\ \A f \in Outcomes({"hide"}) :
             C5_CloseStep(f) =>
                (Main \in windows' /\ Main \notin visible' /\ proc' = "running")
       /\ (Main \in windows /\ proc' \notin {"exited", "quit"})
             => Main \in windows']_vars

\* C6: the process ends only through the tray's quit entry tray_quit, with
\* exit code 0.
C6_OnlyTrayQuitEnds ==
    [][(proc = "running" /\ proc' # "running") =>
          /\ proc' = "exited"
          /\ trayExists
          /\ Step(MenuDispatch(Begin(St), "tray_quit", AllOk))]_vars

\* The arm each menu identifier enters.
C7_Arm(id) ==
    CASE id = "settings" -> "app:settings"
      [] id = "new_entry" -> "app:new_entry"
      [] id = "toggle_timer" -> "app:toggle_timer"
      [] id = "tray_timer" -> "tray:tray_timer"
      [] id = "tray_show" -> "tray:tray_show"
      [] id = "tray_quit" -> "tray:tray_quit"

\* C7: with both menu handlers receiving the event, each of the six menu
\* identifiers enters exactly one handler arm, and any other identifier
\* enters none, makes no call, changes no state and returns no error.
C7_OneActionPerId ==
    [][\A id \in MenuIds \cup OtherIds : \A f \in Outcomes(MenuCalls(id)) :
          LET t == MenuDispatch(Begin(St), id, f) IN
          (proc = "running" /\ (id \in TrayMenuIds => trayExists) /\ Step(t)) =>
             /\ id \in MenuIds => t.arms = <<C7_Arm(id)>>
             /\ id \notin MenuIds =>
                   /\ t.arms = <<>>
                   /\ t.calls = <<>>
                   /\ UNCHANGED progVars
                   /\ pendingBlur' = pendingBlur
                   /\ ret' # "Err"]_vars

C7_Witness ==
    /\ route = SettingsHash
    /\ Main \in visible
    /\ focus = Main
    /\ proc = "running"

\* A queued focus loss of the widget handled from the current state.
C8_BlurStep(f) ==
    /\ proc = "running"
    /\ Widget \in windows
    /\ pendingBlur > 0
    /\ Step(WidgetWindowHandler([Begin(St) EXCEPT !.pendingBlur = @ - 1],
                                "Focused(false)", f))

\* C8 as stated: a focus-lost event on the widget hides it when it is Shown,
\* and changes nothing when it is Hidden.
C8_FocusLostHides ==
    [][\A f \in Outcomes({"hide"}) :
          C8_BlurStep(f) =>
             /\ Widget \in visible => Widget \notin visible'
             /\ Widget \notin visible => UNCHANGED progVars]_vars

\* C8, amended: a focus-lost event on the widget hides it when it is Shown,
\* provided hide returns Ok (an Err is discarded and the widget stays Shown),
\* and changes nothing when it is Hidden.
C8_OkFocusLostHides ==
    [][\A f \in Outcomes({"hide"}) :
          C8_BlurStep(f) =>
             /\ (Widget \in visible /\ f["hide"]) => Widget \notin visible'
             /\ (Widget \in visible /\ ~f["hide"]) => UNCHANGED progVars
             /\ Widget \notin visible => UNCHANGED progVars]_vars

C8_Witness ==
    /\ Widget \in windows
    /\ Widget \notin visible
    /\ widgetPos # DefaultPos
    /\ focus = Main
    /\ pendingBlur = 0
    /\ run = <<>>

\* C9: update_tray_title returns Ok and changes nothing when the tray icon
\* does not exist; it returns Err exactly when the tray exists and set_title
\* fails; otherwise it returns Ok and the tray title is the formatted string.
C9_UpdateTrayTitleResult ==
    [][\A elapsed \in Elapseds : \A project \in Projects :
       \A f \in Outcomes({"set_title"}) :
          LET t == UpdateTrayTitleCmd(Begin(St), elapsed, project, f) IN
          (proc = "running" /\ Step(t)) =>
             /\ ~trayExists =>
                   (ret' = "Ok" /\ t.calls = <<>> /\ UNCHANGED progVars)
             /\ ret' = "Err" <=> (trayExists /\ ~f["set_title"])
             /\ ret' = "Err" => UNCHANGED progVars
             /\ (trayExists /\ f["set_title"]) =>
                   (ret' = "Ok" /\ trayTitle' = C4_Title(elapsed, project))]_vars

C9_Witness ==
    /\ ~trayExists
    /\ ret = "Ok"
    /\ trayTitle = NoTitle

\* C10: from every state and under the same outcomes of the platform calls,
\* the tray left click, the menu id toggle_timer and the menu id tray_timer
\* lead to the same state; only the handler arm entered differs.
C10_ToggleEntryPointsAgree ==
    \A f \in Outcomes(ToggleCalls) :
       LET click == TrayIconHandler(Begin(St), LeftUp, f)
           app == MenuDispatch(Begin(St), "toggle_timer", f)
           tray == MenuDispatch(Begin(St), "tray_timer", f)
       IN  /\ [click EXCEPT !.arms = <<>>] = [app EXCEPT !.arms = <<>>]
           /\ [click EXCEPT !.arms = <<>>] = [tray EXCEPT !.arms = <<>>]
           /\ NextRun(St, click) = NextRun(St, app)
           /\ NextRun(St, click) = NextRun(St, tray)
           /\ Len(click.arms) = 1 /\ Len(app.arms) = 1 /\ Len(tray.arms) = 1

C10_Witness ==
    /\ run = <<TRUE>>
    /\ trayExists
    /\ trayRect = Some(Phys(100, 20, 25, 24))
    /\ widgetPos = <<-47, 52>>
    /\ Widget \in visible

\* The platform calls of a handler run, without their outcomes.
C11_CallSeq(t) ==
    [i \in 1..Len(t.calls) |-> <<t.calls[i][1], t.calls[i][2]>>]

\* The outcomes where only window calls named by C11 fail.
C11_WindowFailures(S) ==
    {f \in Outcomes(S) : f["is_visible"] /\ f["rect"] /\ f["set_title"]}

\* What C11 says of a handler run t, tOk being the same run with every call
\* returning Ok: the handler makes the same calls, raises no error and the
\* process keeps running (unless the event is the quit entry).
C11_Discarded(t, tOk) ==
    /\ C11_CallSeq(t) = C11_CallSeq(tOk)
    /\ ret' # "Err"
    /\ proc' = tOk.proc
    /\ windows' = tOk.windows

\* C11: a failure of hide, show, set_focus, set_position or eval in any menu,
\* tray or window event handler is discarded: the handler makes the calls it
\* makes when they succeed, no error is raised and the process keeps running.
C11_FailuresDiscarded ==
    [][/\ \A id \in MenuIds : \A f \in C11_WindowFailures(MenuCalls(id)) :
             (proc = "running" /\ (id \in TrayMenuIds => trayExists)
                /\ Step(MenuDispatch(Begin(St), id, f)))
             => C11_Discarded(MenuDispatch(Begin(St), id, f),
                              MenuDispatch(Begin(St), id, AllOk))
       /\ \A f \in C11_WindowFailures(ToggleCalls) :
             (proc = "running" /\ trayExists
                /\ Step(TrayIconHandler(Begin(St), LeftUp, f)))
             => C11_Discarded(TrayIconHandler(Begin(St), LeftUp, f),
                              TrayIconHandler(Begin(St), LeftUp, AllOk))
       /\ \A f \in C11_WindowFailures({"hide"}) :
             C8_BlurStep(f)
             => C11_Discarded(
                   WidgetWindowHandler([Begin(St) EXCEPT !.pendingBlur = @ - 1],
                                       "Focused(false)", f),
                   WidgetWindowHandler([Begin(St) EXCEPT !.pendingBlur = @ - 1],
                                       "Focused(false)", AllOk))
       /\ \A f \in C11_WindowFailures({"hide"}) :
             C5_CloseStep(f)
             => C11_Discarded(
                   MainWindowHandler(Begin(St), "CloseRequested", f),
                   MainWindowHandler(Begin(St), "CloseRequested", AllOk))]_vars

\* The three events that show and focus the main window.
ShowMainIds == {"settings", "new_entry", "tray_show"}

\* What C12 says of a handler run t that found its window missing: no
\* platform call is made, no state changes and no error is raised.
C12_NoOp(t) ==
    /\ t.calls = <<>>
    /\ UNCHANGED progVars
    /\ pendingBlur' = pendingBlur
    /\ ret' # "Err"

\* C12: when the timer-widget window does not exist, the three toggles and
\* position_widget_window change no state and raise no error; when the main
\* window does not exist, neither do settings, new_entry and tray_show.
C12_MissingWindowNoOp ==
    [][/\ (proc = "running" /\ Widget \notin windows) =>
             \A f \in Outcomes(ToggleCalls) :
                /\ PositionWidgetWindow(Begin(St), f) = Begin(St)
                /\ \A t \in ToggleResults(Begin(St), f) : Step(t) => C12_NoOp(t)
       /\ (proc = "running" /\ Main \notin windows) =>
             \A id \in ShowMainIds : \A f \in Outcomes(MenuCalls(id)) :
                Step(MenuDispatch(Begin(St), id, f))
                   => C12_NoOp(MenuDispatch(Begin(St), id, f))]_vars

C12_Witness ==
    /\ proc = "running"
    /\ Widget \notin windows
    /\ last = <<"tray_icon:left_up">>
    /\ visible = {Main}
    /\ focus = Main

\* The tray icon is missing, or tray.rect() gives no rectangle (Ok(None) or
\* Err) under outcomes f.
C13_RectUnavailable(f) == ~trayExists \/ trayRect = NoRect \/ ~f["rect"]

\* The toggle run t skipped positioning and went on to show and focus.
C13_SkipsAndShows(t) ==
    /\ \A i \in 1..Len(t.calls) : t.calls[i][2] # "set_position"
    /\ Len(t.calls) >= 2
    /\ t.calls[Len(t.calls) - 1][1] = Widget
    /\ t.calls[Len(t.calls) - 1][2] = "show"
    /\ t.calls[Len(t.calls)][1] = Widget
    /\ t.calls[Len(t.calls)][2] = "set_focus"
    /\ widgetPos' = widgetPos

\* C13 as stated: with the tray icon or its rectangle unavailable, a toggle
\* from Hidden makes no positioning call, leaves the position unchanged,
\* calls show and set_focus and leaves the widget Shown.
C13_UnpositionedToggleShows ==
    [][(proc = "running" /\ Widget \in windows /\ Widget \notin visible) =>
          \A f \in Outcomes(ToggleCalls) :
             C13_RectUnavailable(f) =>
                \A t \in ToggleResults(Begin(St), f) :
                   Step(t) => (C13_SkipsAndShows(t) /\ Widget \in visible')]_vars

\* C13, amended: the same, the widget being left Shown provided show returns
\* Ok, and holding the input focus provided set_focus returns Ok as well; a
\* failed show is discarded and leaves the widget Hidden.
C13_OkUnpositionedToggleShows ==
    [][(proc = "running" /\ Widget \in windows /\ Widget \notin visible) =>
          \A f \in Outcomes(ToggleCalls) :
             C13_RectUnavailable(f) =>
                \A t \in ToggleResults(Begin(St), f) :
                   Step(t) =>
                      /\ C13_SkipsAndShows(t)
                      /\ f["show"] => Widget \in visible'
                      /\ ~f["show"] => Widget \notin visible'
                      /\ (f["show"] /\ f["set_focus"]) => focus' = Widget]_vars

C13_Witness ==
    /\ run = <<TRUE>>
    /\ trayExists
    /\ trayRect = NoRect
    /\ widgetPos = <<351, 30>>
    /\ Widget \in visible
    /\ focus = Widget

\* The route C14 gives for each of the three identifiers: tray_show keeps it.
C14_Route(id) ==
    CASE id = "settings" -> "#/settings"
      [] id = "new_entry" -> "#/timer"
      [] id = "tray_show" -> route

\* The part of C14 that does not depend on the platform: the widget's
\* visibility and position are not touched, and tray_show leaves the route.
C14_Frame(id) ==
    /\ (Widget \in visible') = (Widget \in visible)
    /\ widgetPos' = widgetPos
    /\ id = "tray_show" => route' = route

\* C14 as stated: settings and new_entry show and focus the main window and
\* set the route to #/settings and #/timer, tray_show shows and focuses it and
\* leaves the route; none changes the widget's visibility or position.
C14_ShowMainEffects ==
    [][(proc = "running" /\ Main \in windows) =>
          \A id \in ShowMainIds : \A f \in Outcomes(MenuCalls(id)) :
             ((id \in TrayMenuIds => trayExists)
                /\ Step(MenuDispatch(Begin(St), id, f))) =>
                /\ Main \in visible'
                /\ focus' = Main
                /\ route' = C14_Route(id)
                /\ C14_Frame(id)]_vars

\* C14, amended: the same provided the calls return Ok: the main window is
\* shown when show returns Ok, focused when show and set_focus do, and the
\* route is set when eval does; a failed call is discarded and leaves its
\* part of the state as it was.
C14_OkShowMainEffects ==
    [][(proc = "running" /\ Main \in windows) =>
          \A id \in ShowMainIds : \A f \in Outcomes(MenuCalls(id)) :
             ((id \in TrayMenuIds => trayExists)
                /\ Step(MenuDispatch(Begin(St), id, f))) =>
                /\ f["show"] => Main \in visible'
                /\ ~f["show"] => (Main \in visible') = (Main \in visible)
                /\ (f["show"] /\ f["set_focus"]) => focus' = Main
                /\ ~f["set_focus"] => focus' = focus
                /\ route' = IF f["eval"] THEN C14_Route(id) ELSE route
                /\ C14_Frame(id)]_vars

C14_Witness ==
    /\ route = "#/timer"
    /\ Main \in visible
    /\ focus = Main
    /\ Widget \in visible
    /\ pendingBlur = 1
    /\ last = <<>>
    /\ run = <<>>

\* The current step is a call of update_tray_title(elapsed, project) on an
\* existing tray icon whose set_title returns Ok.
C15_SuccessfulCall(elapsed, project) ==
    /\ proc = "running"
    /\ trayExists
    /\ Step(UpdateTrayTitleCmd(Begin(St), elapsed, project, AllOk))

\* C15: the tray title is "TimeGrid" when setup returns; every successful
\* call of update_tray_title on the tray makes it the formatted title of that
\* call; and every other step (a failed call, a menu, tray-click, focus or
\* close event) leaves it as it is.  Hence at any time the title is "TimeGrid"
\* if no call has succeeded and otherwise the formatted title of the most
\* recent successful call.
C15_TrayTitleHeld ==
    /\ trayExists => trayTitle = "TimeGrid"
    /\ [][/\ \A elapsed \in Elapseds : \A project \in Projects :
                C15_SuccessfulCall(elapsed, project)
                   => trayTitle' = C4_Title(elapsed, project)
          /\ (\A elapsed \in Elapseds : \A project \in Projects :
                ~C15_SuccessfulCall(elapsed, project))
                   => trayTitle' = trayTitle]_vars

C15_Witness ==
    /\ trayExists
    /\ trayTitle = "<U+23F1> 00:05"
    /\ ret = "Err"

LeftDown == [type |-> "Click", button |-> "Left", button_state |-> "Down"]

\* C16: of the tray events only the left-button release enters the toggle;
\* the left press, the right and middle buttons and every other tray event
\* enter no arm, make no call and change no state, so that a press followed
\* by its release is one toggle, the same as the release alone.
C16_OnlyLeftUpToggles ==
    (proc = "running" /\ trayExists) =>
       \A f \in Outcomes(ToggleCalls) :
          /\ \A e \in TrayEvents \ {LeftUp} :
                TrayIconHandler(Begin(St), e, f) = Begin(St)
          /\ TrayIconHandler(Begin(St), LeftUp, f) = TrayClickToggle(Begin(St), f)
          /\ TrayIconHandler(Begin(St), LeftUp, f).arms = <<"tray_icon:left_up">>
          /\ TrayIconHandler(TrayIconHandler(Begin(St), LeftDown, f), LeftUp, f)
                = TrayClickToggle(Begin(St), f)

C16_Witness ==
    /\ proc = "running"
    /\ trayExists
    /\ run = <<TRUE>>
    /\ Main \in windows
    /\ Main \notin visible
    /\ Widget \in visible
    /\ focus = Widget
    /\ pendingBlur = 0

\* No focus event of the widget is waiting to be delivered.
C17_Quiescent == pendingBlur = 0

\* C17 as stated, the state part: in a quiescent state where no set_focus
\* call has failed, the widget is visible only if it holds the input focus.
C17_VisibleOnlyFocused ==
    (proc = "running" /\ C17_Quiescent /\ "set_focus" \notin failed)
       => (Widget \in visible => focus = Widget)

\* C17, amended, the state part: the same where no set_focus and no hide call
\* has failed.
C17_OkVisibleOnlyFocused ==
    (proc = "running" /\ C17_Quiescent /\ failed = {})
       => (Widget \in visible => focus = Widget)

\* C17 as stated: when settings, new_entry or tray_show shows and focuses the
\* main window while the widget is Shown, the widget loses the focus, a
\* focus-lost event is queued for it and its delivery hides the widget; and
\* in every quiescent state where the focus requests succeeded the widget is
\* visible only if it holds the input focus.
C17_MainFocusHidesWidget ==
    /\ C17_VisibleOnlyFocused
    /\ [][/\ C17_VisibleOnlyFocused'
          /\ (proc = "running" /\ Main \in windows /\ Widget \in visible) =>
                \A id \in ShowMainIds : \A f \in Outcomes(MenuCalls(id)) :
                   ((id \in TrayMenuIds => trayExists)
                      /\ f["show"] /\ f["set_focus"]
                      /\ Step(MenuDispatch(Begin(St), id, f)))
                   => (focus' = Main /\ pendingBlur' > 0)
          /\ \A f \in Outcomes({"hide"}) :
                (C8_BlurStep(f) /\ Widget \in visible)
                   => Widget \notin visible']_vars

\* C17, amended: when settings, new_entry or tray_show shows and focuses the
\* main window (show and set_focus returning Ok) while the widget is Shown
\* and holds the focus, the widget loses the focus and one more focus-lost
\* event is queued for it, whose delivery hides the widget provided hide
\* returns Ok; and in every quiescent state reached without a failed
\* set_focus or hide call the widget is visible only if it holds the focus.
C17_OkMainFocusHidesWidget ==
    /\ C17_OkVisibleOnlyFocused
    /\ [][/\ C17_OkVisibleOnlyFocused'
          /\ (proc = "running" /\ Main \in windows /\ Widget \in visible
                /\ focus = Widget) =>
                \A id \in ShowMainIds : \A f \in Outcomes(MenuCalls(id)) :
                   ((id \in TrayMenuIds => trayExists)
                      /\ f["show"] /\ f["set_focus"]
                      /\ Step(MenuDispatch(Begin(St), id, f)))
                   => (focus' = Main /\ pendingBlur' = pendingBlur + 1)
          /\ \A f \in Outcomes({"hide"}) :
                (C8_BlurStep(f) /\ Widget \in visible /\ f["hide"])
                   => Widget \notin visible']_vars

C17_Witness ==
    /\ proc = "running"
    /\ failed = {}
    /\ route = "#/settings"
    /\ focus = Main
    /\ Widget \notin visible
    /\ widgetPos = <<351, 30>>
    /\ pendingBlur = 0

====
